---- MODULE Spec2Model ----
\* Navigation and temporary-branch state machine of the chess viewer
\* (client/src/pages/Home.tsx, client/src/lib/chessUtils.ts and the
\* components that raise its events).
\*
\* A handler is one action: the handler body, the render it schedules and the
\* follow-up useEffect that recomputes displayFen run to completion before the
\* next event, as React does for discrete events.
EXTENDS Integers, Sequences, FiniteSets, TLC

VARIABLES gameState, temporaryBranch, displayFen, gameId,
          tabsMoveIndex, keyBranch, rewinding

vars == <<gameState, temporaryBranch, displayFen, gameId,
          tabsMoveIndex, keyBranch, rewinding>>

\* The analysis side (AnalysisTabs, StockfishAnalysis, ChatInterface and the
\* shared StockfishService with its engine worker).
VARIABLES currentFen, panel, currentEvaluation, service, promises,
          toEngine, engine, fromEngine, timers, chat, messages, changes

analysisVars == <<currentFen, panel, currentEvaluation, service, promises,
                  toEngine, engine, fromEngine, timers, chat, messages, changes>>

\* The server side: the in-memory store (MemStorage) and the POST /api/chats
\* requests under way.
VARIABLES chats, chatIdCounter, requests

serverVars == <<chats, chatIdCounter, requests>>

\* ---------------------------------------------------------------- bounds
\* longest main line a played move may produce
MaxHistory == 2
\* longest stored history handed to the reconstruction functions
MaxStored == 3
\* longest temporary branch
MaxBranch == 2
\* number of game loads (each draws a fresh game id)
MaxLoads == 1
\* number of evaluatePosition calls made on the shared service
MaxRequests == 2
\* number of changes of the position shown to the analysis side
MaxChanges == 1
\* number of chat messages the user sends
MaxSends == 1
\* number of POST /api/chats requests the server receives
MaxPosts == 3

\* ------------------------------------------------- rules engine (chess.js)
\* The board is cut down to the squares the modelled moves touch.
Squares == {"e2", "e4", "g1", "f3", "e7", "e5", "b8", "c6"}

Empty == "."

\* A ChessMove as chess.js reports it (shared/types.ts).
Mv(c, p, f, t, s) ==
    [color |-> c, piece |-> p, from |-> f, to |-> t, san |-> s, promotion |-> "none"]

\* The moves the engine knows: a pawn push and a knight move for each side.
MoveSet ==
    { Mv("w", "P", "e2", "e4", "e4"),  Mv("w", "N", "g1", "f3", "Nf3"),
      Mv("b", "p", "e7", "e5", "e5"),
      Mv("b", "n", "b8", "c6", "Nc6") }

\* new Chess(): the standard initial position, side to move and move number.
StartFen ==
    [board |-> [s \in Squares |->
                  CASE s = "e2" -> "P" [] s = "g1" -> "N"
                    [] s = "e7" -> "p" [] s = "b8" -> "n"
                    [] OTHER -> Empty],
     turn |-> "w", fullmove |-> 1]

\* The engine's move matching (from, to) in position fen, if it is legal there.
Candidates(fen, from, to) ==
    { m \in MoveSet : /\ m.from = from /\ m.to = to
                      /\ m.color = fen.turn
                      /\ fen.board[from] = m.piece
                      /\ fen.board[to] = Empty }

IsLegal(fen, from, to) == Candidates(fen, from, to) # {}

\* The position after a legal move.
Apply(fen, m) ==
    [board |-> [fen.board EXCEPT ![m.from] = Empty, ![m.to] = m.piece],
     turn |-> IF fen.turn = "w" THEN "b" ELSE "w",
     fullmove |-> IF fen.turn = "b" THEN fen.fullmove + 1 ELSE fen.fullmove]

\* chess.move({from, to, promotion}): ok = FALSE stands for the rejection
\* (a throw or a null result); the position is then left as it was.
\* (The position is bound through a one-element set, here and in the replay
\* loops below, so that it is computed once however deep the replay is.)
ChessMove(fen, from, to, promotion) ==
    CHOOSE r \in { IF IsLegal(f, from, to)
                   THEN [ok |-> TRUE,
                         fen |-> Apply(f, CHOOSE m \in Candidates(f, from, to) : TRUE)]
                   ELSE [ok |-> FALSE, fen |-> f] : f \in {fen} } : TRUE

\* chess.move(san): the move of that notation legal in fen.
BySan(fen, san) == { m \in MoveSet : m.san = san /\ m \in Candidates(fen, m.from, m.to) }

\* ------------------------------------------------------------------- PGN
\* A PGN text is modelled by the SAN tokens of its move section.
PgnEmpty == <<>>
PgnShort == <<"e4", "e5">>
PgnTest  == <<"e4", "e5", "Nf3", "Nc6">>
PgnBad   == <<"e4", "e4">>

Pgns == {PgnShort, PgnTest, PgnBad}

\* chess.loadPgn(pgn): plays the tokens from the initial position; ok = FALSE
\* when a token is no legal move (loadPgn throws).
RECURSIVE LoadFrom(_, _, _, _)
LoadFrom(pgn, k, fen, hist) ==
    IF k > Len(pgn) THEN [ok |-> TRUE, fen |-> fen, history |-> hist]
    ELSE CHOOSE r \in
           { IF BySan(f, pgn[k]) = {} THEN [ok |-> FALSE, fen |-> f, history |-> h]
             ELSE LET m == CHOOSE x \in BySan(f, pgn[k]) : TRUE
                  IN  LoadFrom(pgn, k + 1, Apply(f, m), Append(h, m))
             : <<f, h>> \in {<<fen, hist>>} } : TRUE

loadPgn(pgn) == LoadFrom(pgn, 1, StartFen, <<>>)

\* parsePgn: null (ok = FALSE) when loadPgn throws.
parsePgn(pgn) == loadPgn(pgn)

\* getGameHistory: chess.history({verbose: true}).
getGameHistory(chess) == chess.history

\* --------------------------------------------------------- reconstruction
\* history[i] of the code is history[i + 1] here.
Min(a, b) == IF a < b THEN a ELSE b
Max(a, b) == IF a > b THEN a ELSE b

\* The replay loop of navigateToPosition: stops at the first rejected move.
RECURSIVE ReplayBreak(_, _, _, _)
ReplayBreak(moves, i, moveIndex, fen) ==
    IF i > moveIndex THEN fen
    ELSE CHOOSE x \in
           { IF r.ok THEN ReplayBreak(moves, i + 1, moveIndex, r.fen) ELSE r.fen
             : r \in {ChessMove(fen, moves[i + 1].from, moves[i + 1].to,
                                moves[i + 1].promotion)} } : TRUE

\* Whether navigateToPosition returns a new state object (it returns its
\* argument itself for an index that names no move).
navigateChanges(gs, moveIndex) ==
    moveIndex = -1 \/ (moveIndex >= 0 /\ moveIndex < Len(gs.history))

\* A navigation that trusts the requested index.
navigateToPosition_unchecked(gs, moveIndex) ==
    IF moveIndex = -1
    THEN [gs EXCEPT !.fen = loadPgn(gs.pgn).fen, !.currentMoveIndex = -1]
    ELSE [gs EXCEPT !.fen = ReplayBreak(gs.history, 0, Min(moveIndex, Len(gs.history) - 1),
                                        StartFen),
                    !.currentMoveIndex = moveIndex]

navigateToPosition(gs, moveIndex) ==
    IF moveIndex = -1
    THEN [gs EXCEPT !.fen = loadPgn(gs.pgn).fen, !.currentMoveIndex = -1]
    ELSE IF ~(moveIndex >= 0 /\ moveIndex < Len(gs.history)) THEN gs
    ELSE [gs EXCEPT !.fen = ReplayBreak(gs.history, 0, moveIndex, StartFen),
                    !.currentMoveIndex = moveIndex]

\* The replay loop of getFenAtIndex: a rejected move is skipped.
RECURSIVE ReplaySkip(_, _, _, _)
ReplaySkip(moves, i, upTo, fen) ==
    IF i > upTo THEN fen
    ELSE ReplaySkip(moves, i + 1, upTo,
                    ChessMove(fen, moves[i + 1].from, moves[i + 1].to,
                              moves[i + 1].promotion).fen)

getFenAtIndex(state, index) ==
    IF index < 0 THEN StartFen
    ELSE ReplaySkip(state.history, 0, Min(index, Len(state.history) - 1), StartFen)

\* ------------------------------------------------------ Home (Home.tsx)
\* temporaryBranch is null (Null) or one branch object (<<branch>>).
Null == <<>>

Branch(base, moves, fen) == <<[baseMoveIndex |-> base, moves |-> moves, fen |-> fen]>>

defaultGameState ==
    [pgn |-> PgnEmpty, fen |-> StartFen, history |-> <<>>, currentMoveIndex |-> -1]

\* What a handler leaves behind when it returns: the three pieces of state and
\* whether gameState or temporaryBranch became a different object (eff), which
\* is what makes the displayFen effect run after the render.
Out(gs, tb, df, eff) == [gs |-> gs, tb |-> tb, df |-> df, eff |-> eff]

\* useEffect(..., [gameState, temporaryBranch]).
displayFenEffect(gs, tb) ==
    IF tb # Null THEN tb[1].fen ELSE getFenAtIndex(gs, gs.currentMoveIndex)

\* The displayed position once the render and the effect have run.
Settle(r) == IF r.eff THEN displayFenEffect(r.gs, r.tb) ELSE r.df

\* A handler that lets the main line shrink to the branch point when a branch
\* is set (the recorded continuation is lost).
handleTemporaryBranchChange_truncating(gs, branch) ==
    Out([gs EXCEPT !.history = SubSeq(gs.history, 1,
                       Min(Len(gs.history), branch[1].baseMoveIndex + 1))],
        branch, branch[1].fen, TRUE)

\* handleTemporaryBranchChange(branch), for a branch that is not null.
handleTemporaryBranchChange(gs, branch) == Out(gs, branch, branch[1].fen, TRUE)

\* A branch rooted one move too late.
newBranch_offByOne(gs, move, newFen) ==
    Branch(gs.currentMoveIndex + 1, <<move>>, newFen)

\* newBranch of handleMove: the branch a move from a historical position opens.
newBranch(gs, move, newFen) ==
    Branch(gs.currentMoveIndex, <<move>>, newFen)

\* An extension that keeps only the move just played.
updatedBranch_dropping(tb, move, newFen) ==
    Branch(tb[1].baseMoveIndex, <<move>>, newFen)

\* updatedBranch of handleMove: the active branch with the move appended.
updatedBranch(tb, move, newFen) ==
    Branch(tb[1].baseMoveIndex, Append(tb[1].moves, move), newFen)

\* An append that leaves the cursor where it was.
appendToHistory_noAdvance(gs, move, newFen) ==
    [gs EXCEPT !.history = Append(gs.history, move), !.fen = newFen]

\* The setGameState updater of handleMove: the move joins the main line.
appendToHistory(gs, move, newFen) ==
    [gs EXCEPT !.history = Append(gs.history, move),
               !.currentMoveIndex = gs.currentMoveIndex + 1,
               !.fen = newFen]

\* handleMove(move): gs, tb, df are the values of the render the handler
\* closed over.
handleMove(gs, tb, df, move) ==
    LET newFen == ChessMove(df, move.from, move.to, move.promotion).fen
    IN  IF tb # Null
        THEN handleTemporaryBranchChange(gs, updatedBranch(tb, move, newFen))
        ELSE IF gs.currentMoveIndex < Len(gs.history) - 1
        THEN handleTemporaryBranchChange(gs, newBranch(gs, move, newFen))
        ELSE Out(appendToHistory(gs, move, newFen), tb, df, TRUE)

\* A First that rewinds the cursor and leaves the branch alone.
handleFirstMove_keepingBranch(gs, tb, df) ==
    Out(navigateToPosition(gs, -1), tb, gs.fen, TRUE)

handleFirstMove(gs, tb, df) ==
    Out(navigateToPosition(gs, -1), Null, gs.fen, TRUE)

\* A Previous that will not go behind the first move.
handlePrevMove_floor(gs, tb, df) ==
    IF tb # Null /\ gs.currentMoveIndex = tb[1].baseMoveIndex + 1
    THEN Out(gs, Null, getFenAtIndex(gs, tb[1].baseMoveIndex), TRUE)
    ELSE LET newIndex == Max(0, gs.currentMoveIndex - 1)
             newState == navigateToPosition(gs, newIndex)
         IN  Out(newState, tb, getFenAtIndex(newState, newIndex),
                 navigateChanges(gs, newIndex))

handlePrevMove(gs, tb, df) ==
    IF tb # Null /\ gs.currentMoveIndex = tb[1].baseMoveIndex + 1
    THEN Out(gs, Null, getFenAtIndex(gs, tb[1].baseMoveIndex), TRUE)
    ELSE LET newIndex == Max(-1, gs.currentMoveIndex - 1)
             newState == navigateToPosition(gs, newIndex)
         IN  Out(newState, tb, getFenAtIndex(newState, newIndex),
                 navigateChanges(gs, newIndex))

\* A Next that drops the branch on its way.
handleNextMove_clearing(gs, tb, df) ==
    LET newIndex == Min(Len(gs.history) - 1, gs.currentMoveIndex + 1)
        newState == navigateToPosition(gs, newIndex)
    IN  Out(newState, Null, getFenAtIndex(newState, newIndex), TRUE)

handleNextMove(gs, tb, df) ==
    LET newIndex == Min(Len(gs.history) - 1, gs.currentMoveIndex + 1)
        newState == navigateToPosition(gs, newIndex)
    IN  Out(newState, tb, getFenAtIndex(newState, newIndex),
            navigateChanges(gs, newIndex))

\* A Last that stops one move short of the tip.
handleLastMove_short(gs, tb, df) ==
    LET lastIndex == Max(-1, Len(gs.history) - 2)
        newState  == navigateToPosition(gs, lastIndex)
    IN  Out(newState, Null, getFenAtIndex(newState, lastIndex), TRUE)

handleLastMove(gs, tb, df) ==
    LET lastIndex == Len(gs.history) - 1
        newState  == navigateToPosition(gs, lastIndex)
    IN  Out(newState, Null, getFenAtIndex(newState, lastIndex),
            tb # Null \/ navigateChanges(gs, lastIndex))

\* A click handler that never clears the branch.
handleMoveClick_keepingBranch(gs, tb, df, seen, index) ==
    Out(navigateToPosition(gs, index), tb,
        getFenAtIndex(navigateToPosition(gs, index), index),
        navigateChanges(gs, index))

\* handleMoveClick(index). seen is the temporaryBranch of the render the
\* handler closed over (the window key listener keeps an older handler);
\* tb is the branch held by the state when the updates are applied.
handleMoveClick(gs, tb, df, seen, index) ==
    LET newState == navigateToPosition(gs, index)
        newFen   == getFenAtIndex(newState, index)
        moved    == navigateChanges(gs, index)
    IN  IF seen # Null /\ index <= seen[1].baseMoveIndex
        THEN Out(newState, tb, newFen, moved)
        ELSE IF seen # Null /\ index > seen[1].baseMoveIndex /\ index < Len(gs.history)
        THEN Out(newState, Null, newFen, tb # Null \/ moved)
        ELSE IF seen # Null /\ index < Len(gs.history)
        THEN Out(newState, Null, newFen, tb # Null \/ moved)
        ELSE Out(newState, tb, newFen, moved)

\* handleGameLoaded(newGameState): temporaryBranch is not touched.
handleGameLoaded(gs, tb, df, newGameState) ==
    Out(newGameState, tb, newGameState.fen, TRUE)

\* A submission that falls back to an empty game when the PGN does not parse.
handlePgnSubmit_resetting(gs, tb, df, pgn) ==
    LET chess == parsePgn(pgn)
    IN  IF ~chess.ok
        THEN [gs |-> defaultGameState, tb |-> Null, df |-> StartFen, eff |-> TRUE,
              newGameId |-> FALSE, alert |-> TRUE]
        ELSE [gs |-> [pgn |-> pgn, fen |-> chess.fen, history |-> getGameHistory(chess),
                      currentMoveIndex |-> -1],
              tb |-> tb, df |-> chess.fen, eff |-> TRUE,
              newGameId |-> TRUE, alert |-> FALSE]

\* handlePgnSubmit(pgn). When parsePgn returns null the handler throws into
\* its own catch, which reports the failure with alert(); no setter has been
\* called by then. newGameId tells whether setGameId was called.
handlePgnSubmit(gs, tb, df, pgn) ==
    LET chess == parsePgn(pgn)
    IN  IF ~chess.ok
        THEN [gs |-> gs, tb |-> tb, df |-> df, eff |-> FALSE,
              newGameId |-> FALSE, alert |-> TRUE]
        ELSE [gs |-> [pgn |-> pgn, fen |-> chess.fen, history |-> getGameHistory(chess),
                      currentMoveIndex |-> -1],
              tb |-> tb, df |-> chess.fen, eff |-> TRUE,
              newGameId |-> TRUE, alert |-> FALSE]

\* PGNInput.handleSubmit(pgnInput): an empty input is refused with an error
\* message under the field and not passed on; every other modelled input has
\* a move section and is passed to onSubmit.
handleSubmit(pgnInput) ==
    IF Len(pgnInput) = 0
    THEN [error |-> TRUE, submitted |-> FALSE]
    ELSE [error |-> FALSE, submitted |-> TRUE]

\* GameImporter: the state handed to onGameLoaded for a parsed game.
importedGameState(pgn) ==
    LET chess == parsePgn(pgn)
    IN  [pgn |-> pgn, fen |-> chess.fen, history |-> chess.history,
         currentMoveIndex |-> Len(chess.history) - 1]

\* ------------------------------------- MoveList (the move-list component)
\* createMovePairs(moves, startIndex): black is <<>> when the pair has no
\* black move (moves[i + 1] undefined).
createMovePairs(moves, startIndex) ==
    [k \in 1..((Len(moves) + 1) \div 2) |->
        LET i == 2 * (k - 1)
        IN  [number     |-> ((i + startIndex) \div 2) + 1,
             white      |-> moves[i + 1],
             black      |-> IF i + 2 <= Len(moves) THEN <<moves[i + 2]>> ELSE <<>>,
             whiteIndex |-> i + startIndex,
             blackIndex |-> i + 1 + startIndex]]

\* history.slice(0, end) and history.slice(start)
SliceTo(history, end) == SubSeq(history, 1, Min(Max(end, 0), Len(history)))
SliceFrom(history, start) == SubSeq(history, Min(start, Len(history)) + 1, Len(history))

mainLinePairs(history, tb) ==
    createMovePairs(IF tb # Null THEN SliceTo(history, tb[1].baseMoveIndex + 1)
                    ELSE history, 0)

tempBranchPairs(history, tb) ==
    IF tb = Null \/ Len(tb[1].moves) = 0 THEN <<>>
    ELSE LET startMoveIndex == tb[1].baseMoveIndex + 1
             startPairIndex == startMoveIndex \div 2
             isBlackMove    == startMoveIndex % 2 = 1
             main           == mainLinePairs(history, tb)
         IN  IF isBlackMove /\ Len(main) > 0
             THEN <<[number     |-> startPairIndex + 1,
                     white      |-> main[Len(main)].white,
                     black      |-> <<tb[1].moves[1]>>,
                     whiteIndex |-> main[Len(main)].whiteIndex,
                     blackIndex |-> startMoveIndex]>>
                  \o createMovePairs(Tail(tb[1].moves), startMoveIndex + 1)
             ELSE createMovePairs(tb[1].moves, startMoveIndex)

restOfMainLinePairs(history, tb) ==
    IF tb # Null /\ Len(history) > tb[1].baseMoveIndex + 1
    THEN createMovePairs(SliceFrom(history, tb[1].baseMoveIndex + 1),
                         tb[1].baseMoveIndex + 1)
    ELSE <<>>

\* The indices the cells of a list of pairs pass to onMoveClick: the white
\* cell always, the black cell when the pair has a black move.
PairTargets(pairs) ==
    { pairs[k].whiteIndex : k \in 1..Len(pairs) } \cup
    { pairs[k].blackIndex : k \in { j \in 1..Len(pairs) : pairs[j].black # <<>> } }

ClickTargets(history, tb) ==
    PairTargets(mainLinePairs(history, tb)) \cup
    PairTargets(tempBranchPairs(history, tb)) \cup
    PairTargets(restOfMainLinePairs(history, tb))

\* formatMoveList(history): one row per pair of moves; a missing move is <<>>.
\* The older move list attaches index 2 * idx to the white cell of row idx and
\* 2 * idx + 1 to its black cell.
formatMoveList(history) ==
    [k \in 1..((Len(history) + 1) \div 2) |->
        LET i == 2 * (k - 1)
        IN  [number     |-> (i \div 2) + 1,
             white      |-> <<history[i + 1].san>>,
             black      |-> IF i + 2 <= Len(history) THEN <<history[i + 2].san>> ELSE <<>>,
             whiteIndex |-> i,
             blackIndex |-> i + 1]]

\* A status line that tells the side to move from the length of the game.
getCurrentMoveDisplay_byLength(gs) ==
    [fullMoveNumber |-> (gs.currentMoveIndex \div 2) + 1,
     side           |-> IF Len(gs.history) % 2 = 1 THEN "Black" ELSE "White",
     totalMoves     |-> (Len(gs.history) + 1) \div 2]

\* getCurrentMoveDisplay(gameState): the parts of the status line
\* "Move n (side to move) of total".
getCurrentMoveDisplay(gs) ==
    [fullMoveNumber |-> (gs.currentMoveIndex \div 2) + 1,
     side           |-> IF gs.currentMoveIndex % 2 = 0 THEN "Black" ELSE "White",
     totalMoves     |-> (Len(gs.history) + 1) \div 2]

\* BoardControls: which buttons are disabled.
isAtStart(gs) == gs.currentMoveIndex < 0
isAtEnd(gs) == gs.currentMoveIndex >= Len(gs.history) - 1

\* ------------------------- StockfishService (lib/stockfishService.ts)
\* The positions handed to the engine (FEN strings).
Positions == {"P1", "P2"}

\* 'setoption name MultiPV value 3': the engine reports its three best lines.
MultiPV == 3

\* What the service posts to the worker.  'position fen F' and 'go depth 25
\* movetime 5000' are posted back to back and read in that order; the
\* setoption lines before them change nothing the model looks at.
Go(fen) == [cmd |-> "go", fen |-> fen]

Stop == [cmd |-> "stop", fen |-> ""]

\* What the worker posts back.  A line says nothing of the search it belongs
\* to; fen records the position the engine was searching when it wrote it.
\* Info lines below the target depth are dropped by handleEngineMessage
\* (depth >= this.depth) without any change of state and are left out.
Info(fen, k) == [type |-> "info", fen |-> fen, multipv |-> k]

BestMove(fen) == [type |-> "bestmove", fen |-> fen, multipv |-> 0]

\* A StockfishEvaluation built from an info line, and the fallback built
\* from the bestmove line alone.
Evaluation(msg) == [fen |-> msg.fen, multipv |-> msg.multipv]

fallbackEval(msg) == [fen |-> msg.fen, multipv |-> 1]

\* 'Add or update evaluation for this multipv'.
addOrUpdate(evaluations, e) ==
    IF \E i \in 1..Len(evaluations) : evaluations[i].multipv = e.multipv
    THEN [i \in 1..Len(evaluations) |->
            IF evaluations[i].multipv = e.multipv THEN e ELSE evaluations[i]]
    ELSE Append(evaluations, e)

\* The service and what it writes to, as one value w: the service fields, the
\* promises it has returned, the worker's inbox and the pending 30 s timers.
World == [service |-> service, promises |-> promises,
          toEngine |-> toEngine, timers |-> timers]

stopAnalysis(w) ==
    IF w.service.isAnalyzing
    THEN [w EXCEPT !.toEngine = Append(@, Stop), !.service.isAnalyzing = FALSE]
    ELSE w

\* The promise is the next entry of promises; caller tells whose await it is.
evaluatePosition(w, fen, caller) ==
    LET w1 == IF w.service.isAnalyzing THEN stopAnalysis(w) ELSE w
        id == Len(w1.promises) + 1
    IN  [service  |-> [isAnalyzing |-> TRUE, currentResolve |-> id,
                       evaluations |-> <<>>],
         promises |-> Append(w1.promises,
                             [fen |-> fen, caller |-> caller,
                              state |-> "pending", value |-> <<>>]),
         toEngine |-> Append(w1.toEngine, Go(fen)),
         timers   |-> w1.timers + 1]

\* The callback of setTimeout(..., 30000).
analysisTimeout(w) ==
    IF w.service.isAnalyzing
    THEN [w EXCEPT !.toEngine = Append(@, Stop), !.timers = @ - 1]
    ELSE [w EXCEPT !.timers = @ - 1]

\* resolved is the promise the message resolved, 0 for none.
handleEngineMessage(w, msg) ==
    LET s == w.service IN
    IF ~s.isAnalyzing THEN [w |-> w, resolved |-> 0]
    ELSE IF msg.type = "bestmove" /\ s.currentResolve # 0 THEN
        LET value == IF Len(s.evaluations) > 0 THEN s.evaluations
                     ELSE <<fallbackEval(msg)>>
        IN  [w |-> [w EXCEPT
                      !.promises[s.currentResolve] =
                          [@ EXCEPT !.state = "resolved", !.value = value],
                      !.service = [isAnalyzing |-> FALSE, currentResolve |-> 0,
                                   evaluations |-> <<>>]],
             resolved |-> s.currentResolve]
    ELSE IF msg.type = "info" THEN
        LET evs == addOrUpdate(s.evaluations, Evaluation(msg))
        IN  [w |-> [w EXCEPT
                      !.service.evaluations = evs,
                      !.toEngine = IF Len(evs) = MultiPV THEN Append(@, Stop) ELSE @],
             resolved |-> 0]
    ELSE [w |-> w, resolved |-> 0]

\* ------------------------------ MemStorage (server/routes.ts 628-684)
\* The game ids the requests name.
GameIds == {"g1", "g2"}

\* new MemStorage(): an empty map of chats, ids counted from 1.  chats is the
\* set of the map's values; a value carries its key as id.
ServerStart ==
    /\ chats = {}
    /\ chatIdCounter = 1
    /\ requests = <<>>

getChatByGameId(store, gid) ==
    IF \E c \in store : c.gameId = gid
    THEN <<CHOOSE c \in store : c.gameId = gid>>
    ELSE Null

\* this.chats.set(id, chat)
MapSet(store, value) == {c \in store : c.id # value.id} \cup {value}

saveChat(store, counter, insertChat) ==
    [chats |-> MapSet(store, [id |-> counter, gameId |-> insertChat.gameId,
                              messages |-> insertChat.messages]),
     chatIdCounter |-> counter + 1]

updateChatMessages(store, id, msgs) ==
    IF \E c \in store : c.id = id
    THEN LET found == CHOOSE c \in store : c.id = id
         IN  MapSet(store, [found EXCEPT !.messages = msgs])
    ELSE store

\* ------------------------------------ analysis side, before any event
\* AnalysisTabs opens on the Moves tab, so StockfishAnalysis is not mounted;
\* nothing has been asked of the engine and the chat is empty.
unmountedPanel == [mounted |-> FALSE, isAnalyzing |-> FALSE, evaluations |-> <<>>]

idleChat == [isLoading |-> FALSE, stage |-> "idle", updatedMessages |-> <<>>,
             sent |-> 0, posts |-> 0]

AnalysisStart ==
    /\ currentFen = "P1"
    /\ panel = unmountedPanel
    /\ currentEvaluation = Null
    /\ service = [isAnalyzing |-> FALSE, currentResolve |-> 0, evaluations |-> <<>>]
    /\ promises = <<>>
    /\ toEngine = <<>>
    /\ engine = [searching |-> "", lines |-> 0]
    /\ fromEngine = <<>>
    /\ timers = 0
    /\ chat = idleChat
    /\ messages = <<>>
    /\ changes = 0

\* ----------------------------------------------------------------- events
\* What handleMoveClick reads of the temporaryBranch it closed over: whether
\* it is set, and its baseMoveIndex.
Seen(tb) == IF tb = Null THEN Null ELSE <<[baseMoveIndex |-> tb[1].baseMoveIndex]>>

\* One event run to completion: handler result r, then render and effects.
\* The key listener of AnalysisTabs is re-registered, and so closes over the
\* branch of this render, when its move index or the history length changed.
Settled(r, tabs, gid) ==
    /\ gameState' = r.gs
    /\ temporaryBranch' = r.tb
    /\ displayFen' = Settle(r)
    /\ gameId' = gid
    /\ tabsMoveIndex' = tabs
    /\ keyBranch' = IF tabs # tabsMoveIndex \/ Len(r.gs.history) # Len(gameState.history)
                    THEN Seen(r.tb) ELSE keyBranch
    /\ UNCHANGED <<analysisVars, serverVars>>

\* rewinding tells that the user has started to press Previous over and over
\* (SpecRewind); an event of ordinary use leaves it alone.
Step(r, tabs, gid) ==
    /\ Settled(r, tabs, gid)
    /\ rewinding' = rewinding

Init ==
    /\ gameState = defaultGameState
    /\ temporaryBranch = Null
    /\ displayFen = StartFen
    /\ gameId = 0
    /\ tabsMoveIndex = -1
    /\ keyBranch = Null
    /\ rewinding = FALSE
    /\ AnalysisStart
    /\ ServerStart

\* PlayableChessBoard.onDrop: the board shows displayFen; a legal drop calls
\* handleMove with the engine's move.
onDrop(m) ==
    /\ IsLegal(displayFen, m.from, m.to)
    /\ IF temporaryBranch # Null THEN Len(temporaryBranch[1].moves) < MaxBranch
       ELSE isAtEnd(gameState) => Len(gameState.history) < MaxHistory
    /\ Step(handleMove(gameState, temporaryBranch, displayFen, m),
            tabsMoveIndex, gameId)

Drop == \E m \in MoveSet : onDrop(m)

First ==
    /\ ~isAtStart(gameState)
    /\ Step(handleFirstMove(gameState, temporaryBranch, displayFen),
            tabsMoveIndex, gameId)

Prev ==
    /\ ~isAtStart(gameState)
    /\ Step(handlePrevMove(gameState, temporaryBranch, displayFen),
            tabsMoveIndex, gameId)

Next_ ==
    /\ ~isAtEnd(gameState)
    /\ Step(handleNextMove(gameState, temporaryBranch, displayFen),
            tabsMoveIndex, gameId)

Last ==
    /\ ~isAtEnd(gameState)
    /\ Step(handleLastMove(gameState, temporaryBranch, displayFen),
            tabsMoveIndex, gameId)

\* A click on a cell of the move list: AnalysisTabs.handleMoveClick(index).
onMoveClick(index) ==
    /\ index \in ClickTargets(gameState.history, temporaryBranch)
    /\ Step(handleMoveClick(gameState, temporaryBranch, displayFen,
                            Seen(temporaryBranch), index),
            index, gameId)

MoveClick == \E index \in ClickTargets(gameState.history, temporaryBranch) : onMoveClick(index)

\* ArrowLeft / ArrowRight in AnalysisTabs.
KeyLeft ==
    /\ tabsMoveIndex > -1
    /\ Step(handleMoveClick(gameState, temporaryBranch, displayFen, keyBranch,
                            tabsMoveIndex - 1),
            tabsMoveIndex - 1, gameId)

KeyRight ==
    /\ tabsMoveIndex < Len(gameState.history) - 1
    /\ Step(handleMoveClick(gameState, temporaryBranch, displayFen, keyBranch,
                            tabsMoveIndex + 1),
            tabsMoveIndex + 1, gameId)

\* GameImporter.handleStartNewGame
StartNewGame ==
    /\ gameId < MaxLoads
    /\ Step(handleGameLoaded(gameState, temporaryBranch, displayFen, defaultGameState),
            tabsMoveIndex, gameId + 1)

\* GameImporter.handleGameSelect / handleImportFromLichess with a game that
\* parses; one that does not parse never reaches Home.
ImportGame ==
    \E pgn \in Pgns :
        /\ gameId < MaxLoads
        /\ parsePgn(pgn).ok
        /\ Step(handleGameLoaded(gameState, temporaryBranch, displayFen,
                                 importedGameState(pgn)),
                tabsMoveIndex, gameId + 1)

\* PGNInput.handleSubmit -> handlePgnSubmit, the PGN parses.
PgnSubmit ==
    \E pgn \in Pgns :
        /\ gameId < MaxLoads
        /\ handleSubmit(pgn).submitted
        /\ parsePgn(pgn).ok
        /\ Step(handlePgnSubmit(gameState, temporaryBranch, displayFen, pgn),
                tabsMoveIndex, gameId + 1)

\* A submission that is refused: by PGNInput (empty input) or by
\* handlePgnSubmit, whose parsePgn returns null.
PgnSubmitFailed ==
    \E pgn \in Pgns \cup {PgnEmpty} :
        /\ handleSubmit(pgn).submitted => ~parsePgn(pgn).ok
        /\ LET r == IF handleSubmit(pgn).submitted
                    THEN handlePgnSubmit(gameState, temporaryBranch, displayFen, pgn)
                    ELSE Out(gameState, temporaryBranch, displayFen, FALSE)
           IN  Step(r, tabsMoveIndex, gameId)

Next ==
    \/ Drop \/ First \/ Prev \/ Next_ \/ Last
    \/ MoveClick \/ KeyLeft \/ KeyRight
    \/ StartNewGame \/ ImportGame \/ PgnSubmit \/ PgnSubmitFailed

Spec == Init /\ [][Next]_vars

\* ------------------------------------------------- Previous, repeatedly
\* Ordinary use up to some point, and from then on nothing but presses of
\* Previous, for as long as its button is enabled.
Browse == ~rewinding /\ Next

RewindPrev ==
    /\ ~isAtStart(gameState)
    /\ rewinding' = TRUE
    /\ \E r \in {handlePrevMove(gameState, temporaryBranch, displayFen)} :
          Settled(r, tabsMoveIndex, gameId)

NextRewind == Browse \/ RewindPrev

SpecRewind == Init /\ [][NextRewind]_vars /\ WF_vars(RewindPrev)

\* ------------------------------------------- reconstruction of any history
\* The reconstruction functions applied to stored histories of every shape,
\* including ones the rules engine rejects part of: a game state arrives with
\* its history (GameState.history) and the move list navigates in it.
StoredHistories ==
    UNION { [1..n -> MoveSet] : n \in 0..MaxStored }

ReplayInit ==
    /\ gameState \in { [defaultGameState EXCEPT !.history = h] : h \in StoredHistories }
    /\ temporaryBranch = Null
    /\ displayFen = StartFen
    /\ gameId = 0
    /\ tabsMoveIndex = -1
    /\ keyBranch = Null
    /\ rewinding = FALSE
    /\ AnalysisStart
    /\ ServerStart

SpecReplay == ReplayInit /\ [][MoveClick]_vars

\* --------------------------------- analysis panel, chat and engine worker
\* Positions stand for the values gameState.fen takes; the navigation state is
\* left where it starts, and the events below are those of the analysis side.
\* An event runs to completion: the handler, the render, the effects, and the
\* continuations of the awaits a message from the worker resolves.
Wrote(w) ==
    /\ service' = w.service
    /\ promises' = w.promises
    /\ toEngine' = w.toEngine
    /\ timers' = w.timers

\* StockfishAnalysis.analyzePosition, up to its await: p is the component
\* state of the render whose effect calls it.
analyzePosition(p, w, fen) ==
    IF p.isAnalyzing THEN [panel |-> p, w |-> w]
    ELSE [panel |-> [p EXCEPT !.isAnalyzing = TRUE],
          w |-> evaluatePosition(w, fen, "panel")]

\* The body of StockfishAnalysis' effect on [fen].
fenEffect(p, w, fen) ==
    analyzePosition([p EXCEPT !.evaluations = <<>>], w, fen)

\* gameState.fen changes: AnalysisTabs' effect sets currentFen and clears
\* currentEvaluation; a mounted StockfishAnalysis runs the cleanup of its
\* previous effect (stopAnalysis) and then the effect for the new fen.
ChangePosition ==
    /\ changes < MaxChanges
    /\ \E fen \in Positions \ {currentFen} :
          /\ currentFen' = fen
          /\ currentEvaluation' = Null
          /\ changes' = changes + 1
          /\ IF panel.mounted
             THEN \E r \in {fenEffect(panel, stopAnalysis(World), fen)} :
                     /\ Len(r.w.promises) <= MaxRequests
                     /\ panel' = r.panel
                     /\ Wrote(r.w)
             ELSE UNCHANGED <<panel, service, promises, toEngine, timers>>
    /\ UNCHANGED <<engine, fromEngine, chat, messages, vars, serverVars>>

\* The Analysis tab is selected: StockfishAnalysis mounts with fresh state
\* and its effect runs.
SelectAnalysisTab ==
    /\ ~panel.mounted
    /\ Len(promises) < MaxRequests
    /\ \E r \in {fenEffect([unmountedPanel EXCEPT !.mounted = TRUE], World, currentFen)} :
          /\ panel' = r.panel
          /\ Wrote(r.w)
    /\ UNCHANGED <<currentFen, currentEvaluation, engine, fromEngine, chat,
                   messages, changes, vars, serverVars>>

\* The Moves tab is selected: StockfishAnalysis unmounts, its effect's cleanup
\* runs, and the state setters of the instance that is gone do nothing from
\* now on (its pending awaits are marked "gone").
SelectMovesTab ==
    /\ panel.mounted
    /\ panel' = unmountedPanel
    /\ \E w \in {stopAnalysis(World)} :
          Wrote([w EXCEPT !.promises =
                    [i \in 1..Len(w.promises) |->
                        IF w.promises[i].caller = "panel" /\ w.promises[i].state = "pending"
                        THEN [w.promises[i] EXCEPT !.caller = "gone"]
                        ELSE w.promises[i]]])
    /\ UNCHANGED <<currentFen, currentEvaluation, engine, fromEngine, chat,
                   messages, changes, vars, serverVars>>

\* ChatInterface.handleSendMessage up to its first await.  The input and the
\* Send button are disabled while isLoading.
handleSendMessage ==
    /\ ~chat.isLoading
    /\ chat.sent < MaxSends
    /\ Len(promises) < MaxRequests
    /\ \E inputValue \in {"", "question"} :
          /\ inputValue # ""
          /\ LET userMessage == [role |-> "user", content |-> inputValue,
                                 send |-> chat.sent + 1]
                 updatedMessages == Append(messages, userMessage)
             IN  /\ messages' = updatedMessages
                 /\ chat' = [isLoading |-> TRUE, stage |-> "engine",
                             updatedMessages |-> updatedMessages,
                             sent |-> chat.sent + 1, posts |-> 0]
                 /\ Wrote(evaluatePosition(World, currentFen, "chat"))
    /\ UNCHANGED <<currentFen, panel, currentEvaluation, engine, fromEngine,
                   changes, vars, serverVars>>

\* The answer to POST /api/chats arrives, or the request fails: the rest of
\* handleSendMessage, with the messages it closed over.
BackendReply ==
    /\ chat.stage = "backend"
    /\ \E ok \in BOOLEAN :
          messages' = Append(chat.updatedMessages,
                             [role |-> "assistant",
                              content |-> IF ok THEN "reply" ELSE "error",
                              send |-> chat.sent])
    /\ chat' = [chat EXCEPT !.isLoading = FALSE, !.stage = "idle"]
    /\ UNCHANGED <<currentFen, panel, currentEvaluation, service, promises,
                   toEngine, engine, fromEngine, timers, changes, vars, serverVars>>

\* The worker reads its next command.  A stop ends a running search with a
\* bestmove line and is ignored when no search runs; a go starts the search
\* of the position sent with it once the engine is idle.
EngineRead ==
    /\ toEngine # <<>>
    /\ LET c == Head(toEngine) IN
          IF c.cmd = "stop"
          THEN /\ engine' = [searching |-> "", lines |-> 0]
               /\ fromEngine' = IF engine.searching # ""
                                THEN Append(fromEngine, BestMove(engine.searching))
                                ELSE fromEngine
          ELSE /\ engine.searching = ""
               /\ engine' = [searching |-> c.fen, lines |-> 0]
               /\ fromEngine' = fromEngine
    /\ toEngine' = Tail(toEngine)
    /\ UNCHANGED <<currentFen, panel, currentEvaluation, service, promises,
                   timers, chat, messages, changes, vars, serverVars>>

\* The search reports its next line at the target depth.
EngineInfo ==
    /\ engine.searching # ""
    /\ engine.lines < MultiPV
    /\ fromEngine' = Append(fromEngine, Info(engine.searching, engine.lines + 1))
    /\ engine' = [engine EXCEPT !.lines = @ + 1]
    /\ UNCHANGED <<currentFen, panel, currentEvaluation, service, promises,
                   toEngine, timers, chat, messages, changes, vars, serverVars>>

\* The search ends by itself (depth 25 or movetime 5000 reached).
EngineFinish ==
    /\ engine.searching # ""
    /\ fromEngine' = Append(fromEngine, BestMove(engine.searching))
    /\ engine' = [searching |-> "", lines |-> 0]
    /\ UNCHANGED <<currentFen, panel, currentEvaluation, service, promises,
                   toEngine, timers, chat, messages, changes, vars, serverVars>>

\* worker.onmessage: handleEngineMessage, and then the continuation of the
\* await on the promise it resolved: analyzePosition's (setEvaluations,
\* onEvaluationUpdate, setIsAnalyzing(false)) or handleSendMessage's (up to
\* its POST).
Deliver ==
    /\ fromEngine # <<>>
    /\ fromEngine' = Tail(fromEngine)
    /\ \E r \in {handleEngineMessage(World, Head(fromEngine))} :
          /\ Wrote(r.w)
          /\ IF r.resolved = 0
             THEN UNCHANGED <<panel, currentEvaluation, chat>>
             ELSE LET caller == promises[r.resolved].caller
                      value  == r.w.promises[r.resolved].value
                  IN  /\ panel' = IF caller = "panel"
                                  THEN [panel EXCEPT !.evaluations = value,
                                                     !.isAnalyzing = FALSE]
                                  ELSE panel
                      /\ currentEvaluation' = IF caller \in {"panel", "gone"}
                                              THEN <<value[1]>>
                                              ELSE currentEvaluation
                      /\ chat' = IF caller = "chat"
                                 THEN [chat EXCEPT !.stage = "backend", !.posts = @ + 1]
                                 ELSE chat
    /\ UNCHANGED <<currentFen, toEngine, engine, messages, changes, vars, serverVars>>

\* One of the 30 s timers set by evaluatePosition fires.
Timeout ==
    /\ timers > 0
    /\ Wrote(analysisTimeout(World))
    /\ UNCHANGED <<currentFen, panel, currentEvaluation, engine, fromEngine,
                   chat, messages, changes, vars, serverVars>>

AnalysisNext ==
    \/ ChangePosition
    \/ SelectAnalysisTab
    \/ SelectMovesTab
    \/ handleSendMessage
    \/ BackendReply
    \/ EngineRead
    \/ EngineInfo
    \/ EngineFinish
    \/ Deliver
    \/ Timeout

SpecAnalysis == Init /\ [][AnalysisNext]_analysisVars

\* The worker keeps running, a search ends, the event loop delivers the
\* worker's messages and the HTTP request to the backend completes or fails.
SpecAnalysisLive ==
    /\ Init
    /\ [][AnalysisNext]_analysisVars
    /\ WF_analysisVars(EngineRead)
    /\ WF_analysisVars(EngineFinish)
    /\ WF_analysisVars(Deliver)
    /\ WF_analysisVars(BackendReply)

\* ------------------------------------ POST /api/chats (routes.ts 302-359)
\* A request runs from one await to the next in one step; between its awaits
\* other requests run.  messages stands for the conversation the request
\* carries: the number of the request.
PostChat ==
    /\ Len(requests) < MaxPosts
    /\ \E gid \in GameIds :
          requests' = Append(requests, [gameId |-> gid, at |-> "analyzePosition",
                                        existingChat |-> Null])
    /\ UNCHANGED <<chats, chatIdCounter, vars, analysisVars>>

\* await analyzePosition(...) returns: the handler calls getChatByGameId and
\* awaits it.  When the call to the model fails the handler answers 500.
AiAnswered ==
    \E n \in 1..Len(requests) :
        /\ requests[n].at = "analyzePosition"
        /\ \E ok \in BOOLEAN :
              requests' = [requests EXCEPT ![n] =
                  IF ok
                  THEN [@ EXCEPT !.at = "getChatByGameId",
                                 !.existingChat = getChatByGameId(chats, requests[n].gameId)]
                  ELSE [@ EXCEPT !.at = "done"]]
        /\ UNCHANGED <<chats, chatIdCounter, vars, analysisVars>>

\* await getChatByGameId(...) returns: the handler updates the chat it found
\* or saves a new one, and answers.
ChatStored ==
    \E n \in 1..Len(requests) :
        /\ requests[n].at = "getChatByGameId"
        /\ requests' = [requests EXCEPT ![n].at = "done"]
        /\ IF requests[n].existingChat # Null
           THEN /\ chats' = updateChatMessages(chats, requests[n].existingChat[1].id, n)
                /\ chatIdCounter' = chatIdCounter
           ELSE \E r \in {saveChat(chats, chatIdCounter,
                                   [gameId |-> requests[n].gameId, messages |-> n])} :
                   /\ chats' = r.chats
                   /\ chatIdCounter' = r.chatIdCounter
        /\ UNCHANGED <<vars, analysisVars>>

ChatsNext == PostChat \/ AiAnswered \/ ChatStored

SpecChats == Init /\ [][ChatsNext]_serverVars

\* ================================================================ claims
\* The position reached by applying moves[0..i], by origin, destination and
\* promotion, to the standard initial position.
RECURSIVE PositionAt(_, _)
PositionAt(moves, i) ==
    IF i < 0 THEN StartFen
    ELSE ChessMove(PositionAt(moves, i - 1), moves[i + 1].from, moves[i + 1].to,
                   moves[i + 1].promotion).fen

MainLine == gameState.history
Cursor == gameState.currentMoveIndex
Tip == Len(gameState.history) - 1

\* C1: for every index i from -1 to the tip, navigateToPosition(state, i)
\* returns cursor i and the position after history[0..i]; for i = -1 that is
\* the standard initial position whatever PGN the state carries.
C1_NavigateReconstructs ==
    \A i \in -1..Tip :
        LET r == navigateToPosition(gameState, i)
        IN  /\ r.currentMoveIndex = i
            /\ r.fen = PositionAt(MainLine, i)

\* C2: a move played while the cursor is behind the tip, or while a branch is
\* active, leaves the main line (content and length) as it was.
C2_MainLineKept ==
    [][ \A m \in MoveSet :
            (onDrop(m) /\ (temporaryBranch # Null \/ Cursor < Tip))
            => gameState'.history = gameState.history ]_vars

\* Reached: a branch opened behind the tip of the imported two-move main line
\* and then extended, the main line still the imported one.
C2_Witness ==
    /\ temporaryBranch # Null
    /\ Len(temporaryBranch[1].moves) = 2
    /\ temporaryBranch[1].baseMoveIndex < Tip
    /\ gameState.pgn = PgnShort
    /\ MainLine = loadPgn(PgnShort).history

\* C3: a move played from cursor b with no branch and b behind the tip creates
\* a branch with base b and moves [move] whose cached position is the position
\* the move leads to from the board it was played on, and that position is
\* the one displayed afterwards.
C3_BranchCreated ==
    [][ \A m \in MoveSet :
            (onDrop(m) /\ temporaryBranch = Null /\ Cursor < Tip)
            => /\ temporaryBranch' = Branch(Cursor, <<m>>, Apply(displayFen, m))
               /\ displayFen' = temporaryBranch'[1].fen ]_vars

\* Reached: a branch of one move rooted at -1 on a non-empty main line.
C3_Witness ==
    /\ temporaryBranch # Null
    /\ temporaryBranch[1].baseMoveIndex = -1
    /\ Len(temporaryBranch[1].moves) = 1
    /\ Len(MainLine) > 0
    /\ displayFen = temporaryBranch[1].fen

\* C4: a move played with no branch and the cursor at the tip is appended to
\* the main line, the cursor advances by one and no branch appears.
C4_AppendAtTip ==
    [][ \A m \in MoveSet :
            (onDrop(m) /\ temporaryBranch = Null /\ Cursor = Tip)
            => /\ gameState'.history = Append(gameState.history, m)
               /\ gameState'.currentMoveIndex = Cursor + 1
               /\ temporaryBranch' = Null ]_vars

\* Reached: a second move appended at the tip of a game started from scratch.
C4_Witness ==
    /\ temporaryBranch = Null
    /\ gameState.pgn = PgnEmpty
    /\ Len(MainLine) = 2
    /\ Cursor = 1

\* C5: a move played while a branch is active is appended to the branch, the
\* cached position becomes the position the move leads to; the base index,
\* the main line and the cursor stay as they were.
C5_BranchExtended ==
    [][ \A m \in MoveSet :
            (onDrop(m) /\ temporaryBranch # Null)
            => /\ temporaryBranch' =
                    Branch(temporaryBranch[1].baseMoveIndex,
                           Append(temporaryBranch[1].moves, m),
                           Apply(displayFen, m))
               /\ gameState'.history = gameState.history
               /\ gameState'.currentMoveIndex = Cursor ]_vars

\* Reached: a branch holding two moves, the second played while it was active.
C5_Witness ==
    /\ temporaryBranch # Null
    /\ Len(temporaryBranch[1].moves) = 2
    /\ displayFen = temporaryBranch[1].fen

\* C6: the base index of an active branch is -1 or an index of the current
\* main line.
C6_BranchBaseValid ==
    temporaryBranch # Null
    => /\ temporaryBranch[1].baseMoveIndex >= -1
       /\ temporaryBranch[1].baseMoveIndex <= Tip

\* C7: right after a new game, an import or a PGN submission no branch is
\* active.
C7_LoadClearsBranch ==
    [][ (StartNewGame \/ ImportGame \/ PgnSubmit) => temporaryBranch' = Null ]_vars

\* C8: with no branch active the displayed position is the reconstruction of
\* the main line at the cursor.
C8_DisplayIsReconstruction ==
    temporaryBranch = Null => displayFen = PositionAt(MainLine, Cursor)

\* C9: with a branch active the displayed position is the main-line
\* reconstruction at the cursor when the cursor is at or before the base
\* index, and the branch's cached position when it is beyond it.
C9_DisplayWithBranch ==
    temporaryBranch # Null
    => displayFen = IF Cursor <= temporaryBranch[1].baseMoveIndex
                    THEN PositionAt(MainLine, Cursor)
                    ELSE temporaryBranch[1].fen

\* C10: Previous with a branch active and the cursor at base + 1 clears the
\* branch, sets the cursor to the base index and displays the main-line
\* reconstruction at the base index.
C10_PrevCollapsesBranch ==
    [][ (/\ Prev
         /\ temporaryBranch # Null
         /\ Cursor = temporaryBranch[1].baseMoveIndex + 1)
        => /\ temporaryBranch' = Null
           /\ gameState'.currentMoveIndex = temporaryBranch[1].baseMoveIndex
           /\ displayFen' =
                PositionAt(gameState.history, temporaryBranch[1].baseMoveIndex) ]_vars

\* (In C11 and C12 the conjunct tabsMoveIndex' = i, which every click on move
\* i satisfies, only singles out the steps worth comparing with onMoveClick.)
\* C11: a click on main-line move i with a branch of base b active and i <= b
\* clears the branch, sets the cursor to i and displays the main-line
\* reconstruction at i.
C11_ClickBeforeBaseClearsBranch ==
    [][ \A i \in 0..Tip :
            (/\ temporaryBranch # Null
             /\ i <= temporaryBranch[1].baseMoveIndex
             /\ tabsMoveIndex' = i
             /\ onMoveClick(i))
            => /\ temporaryBranch' = Null
               /\ gameState'.currentMoveIndex = i
               /\ displayFen' = PositionAt(gameState.history, i) ]_vars

\* C12: a click on main-line move i with a branch of base b active and
\* b < i < len(main line) clears the branch, sets the cursor to i and displays
\* the main-line reconstruction at i.
C12_ClickBeyondBaseClearsBranch ==
    [][ \A i \in 0..Tip :
            (/\ temporaryBranch # Null
             /\ temporaryBranch[1].baseMoveIndex < i
             /\ tabsMoveIndex' = i
             /\ onMoveClick(i))
            => /\ temporaryBranch' = Null
               /\ gameState'.currentMoveIndex = i
               /\ gameState'.history = gameState.history
               /\ displayFen' = PositionAt(gameState.history, i) ]_vars

\* Reached: a branch is active, the move list shows a main-line move beyond
\* its base, and the click on it takes the viewer there with the branch gone.
C12_Witness ==
    /\ temporaryBranch # Null
    /\ \E i \in ClickTargets(gameState.history, temporaryBranch) :
          LET r == handleMoveClick(gameState, temporaryBranch, displayFen,
                                   Seen(temporaryBranch), i)
          IN  /\ temporaryBranch[1].baseMoveIndex < i
              /\ i <= Tip
              /\ r.tb = Null
              /\ r.gs.currentMoveIndex = i
              /\ Cursor # i

\* C13: First leaves no branch active, the cursor at -1 and the standard
\* initial position displayed.
C13_FirstRewinds ==
    [][ First => /\ temporaryBranch' = Null
                 /\ gameState'.currentMoveIndex = -1
                 /\ displayFen' = StartFen ]_vars

\* Reached: First acts on a state with a branch active on an imported game.
C13_Witness ==
    /\ temporaryBranch # Null
    /\ gameState.pgn # PgnEmpty
    /\ displayFen # StartFen
    /\ ~isAtStart(gameState)
    /\ handleFirstMove(gameState, temporaryBranch, displayFen).tb = Null

\* C14: Last leaves no branch active, the cursor at the main-line tip and the
\* main-line reconstruction of the tip displayed.
C14_LastGoesToTip ==
    [][ Last => /\ temporaryBranch' = Null
                /\ gameState'.currentMoveIndex = Len(gameState.history) - 1
                /\ gameState'.history = gameState.history
                /\ displayFen' = PositionAt(gameState.history,
                                            Len(gameState.history) - 1) ]_vars

\* Reached: Last acts on a state with a branch active behind the tip.
C14_Witness ==
    /\ temporaryBranch # Null
    /\ Cursor < Tip
    /\ ~isAtEnd(gameState)
    /\ LET r == handleLastMove(gameState, temporaryBranch, displayFen)
       IN  r.tb = Null /\ r.gs.currentMoveIndex = Tip

\* C15: the cursor always satisfies -1 <= index <= len(main line) - 1, and a
\* navigation request for an index outside that range leaves it inside.
C15_CursorInRange ==
    /\ Cursor \in -1..Tip
    /\ \A i \in (-3..Len(MainLine) + 2) \ (-1..Tip) :
          navigateToPosition(gameState, i).currentMoveIndex \in -1..Tip

\* Reached: an out-of-range jump was requested (the display was recomputed
\* for the clamped index while the cursor stayed where it was).
C15_Witness ==
    /\ temporaryBranch = Null
    /\ tabsMoveIndex > Tip
    /\ displayFen # PositionAt(MainLine, Cursor)

\* C17: Next sets the cursor to min(index + 1, len(main line) - 1) and changes
\* neither the main line nor the branch; at the main-line tip, and on an empty
\* main line at -1, Next (its button is disabled there) changes neither the
\* cursor nor the displayed position.
C17_NextAdvances ==
    [][ /\ Next_ => /\ gameState'.currentMoveIndex = Min(Cursor + 1, Tip)
                    /\ gameState'.history = gameState.history
                    /\ temporaryBranch' = temporaryBranch
        /\ (Cursor >= Tip /\ Next_)
              => /\ gameState'.currentMoveIndex = Cursor
                 /\ displayFen' = displayFen ]_vars

\* Reached: Next has moved the cursor past the base of a branch that is still
\* active and still displayed.
C17_Witness ==
    /\ temporaryBranch # Null
    /\ Cursor = temporaryBranch[1].baseMoveIndex + 1
    /\ Cursor = tabsMoveIndex + 1
    /\ displayFen = temporaryBranch[1].fen

\* C18: from a cursor i with 0 <= i <= len(main line) - 1, Previous followed
\* by Next returns to cursor i and to the displayed position it started from,
\* provided no branch is active or i is not base index + 1.
C18_PrevNextRoundTrip ==
    (/\ Cursor \in 0..Tip
     /\ temporaryBranch = Null \/ Cursor # temporaryBranch[1].baseMoveIndex + 1)
    => LET afterPrev == handlePrevMove(gameState, temporaryBranch, displayFen)
           afterNext == handleNextMove(afterPrev.gs, afterPrev.tb, Settle(afterPrev))
       IN  /\ ~isAtStart(gameState)
           /\ ~isAtEnd(afterPrev.gs)
           /\ afterNext.gs.currentMoveIndex = Cursor
           /\ Settle(afterNext) = displayFen

\* C20: a submitted PGN that cannot be parsed is reported to the user and
\* leaves main line, cursor, displayed position, branch and game id as they
\* were.
C20_BadPgnLeavesState ==
    \A pgn \in Pgns \cup {PgnEmpty} :
        IF ~handleSubmit(pgn).submitted
        THEN handleSubmit(pgn).error
        ELSE ~parsePgn(pgn).ok
             => LET r == handlePgnSubmit(gameState, temporaryBranch, displayFen, pgn)
                IN  /\ r.alert
                    /\ r.gs = gameState
                    /\ r.tb = temporaryBranch
                    /\ Settle(r) = displayFen
                    /\ ~r.newGameId

\* Reached: an unparseable PGN is submitted while a loaded game is shown with
\* a branch active.
C20_Witness ==
    /\ temporaryBranch # Null
    /\ gameId > 0
    /\ Len(MainLine) > 0
    /\ handleSubmit(PgnBad).submitted
    /\ handlePgnSubmit(gameState, temporaryBranch, displayFen, PgnBad).alert

\* C19: when the rules engine rejects a stored move during the reconstruction
\* at index i, the move is skipped and the remaining moves up to i are still
\* applied: both the game state's position and the displayed position are the
\* position after all applicable moves of history[0..i].
C19_ReplaySkipsRejected ==
    Cursor >= 0
    => /\ displayFen = PositionAt(MainLine, Cursor)
       /\ gameState.fen = PositionAt(MainLine, Cursor)

\* C16: from every reachable state, with or without a branch, repeating
\* Previous brings the cursor to -1 after finitely many presses, and once it is
\* there further presses leave it at -1.
C16_PrevTerminates ==
    /\ rewinding ~> (Cursor = -1)
    /\ [][ (rewinding /\ Cursor = -1) => gameState'.currentMoveIndex = -1 ]_vars

\* Reached: repeated Previous has brought a game of at least two moves, entered
\* through the move list at its last move, back to -1.
C16_Witness ==
    /\ rewinding
    /\ Cursor = -1
    /\ Len(MainLine) >= 2
    /\ tabsMoveIndex = Tip

\* C27: the move index the move list highlights and the arrow keys step from
\* (AnalysisTabs.currentMoveIndex) equals the navigation cursor in every
\* reachable state.
C27_TabsIndexIsCursor ==
    tabsMoveIndex = Cursor

\* The position after applying moves[1..k], by origin, destination and
\* promotion, to position fen.
RECURSIVE AfterMoves(_, _, _)
AfterMoves(fen, moves, k) ==
    IF k = 0 THEN fen
    ELSE ChessMove(AfterMoves(fen, moves, k - 1), moves[k].from, moves[k].to,
                   moves[k].promotion).fen

\* C28: with a branch active, the branch's cached position is the position
\* reached by replaying the current main line through the base index and then
\* applying the branch moves in order.
C28_BranchFenIsReplay ==
    temporaryBranch # Null
    => temporaryBranch[1].fen =
          AfterMoves(PositionAt(MainLine, Min(temporaryBranch[1].baseMoveIndex, Tip)),
                     temporaryBranch[1].moves, Len(temporaryBranch[1].moves))

\* The pairs the move list shows in the current state: main line, variation
\* and 'main line continues' (formatMoveList's rows are taken separately).
ShownPairs ==
    LET Rows(pairs) == { pairs[k] : k \in 1..Len(pairs) }
    IN  Rows(mainLinePairs(MainLine, temporaryBranch))
        \cup Rows(tempBranchPairs(MainLine, temporaryBranch))
        \cup Rows(restOfMainLinePairs(MainLine, temporaryBranch))

\* What C24 asks of one pair.
PairByParity(pair) ==
    /\ pair.whiteIndex % 2 = 0
    /\ pair.number = (pair.whiteIndex \div 2) + 1
    /\ pair.black # <<>> => /\ pair.blackIndex % 2 = 1
                            /\ pair.number = (pair.blackIndex \div 2) + 1

\* C24: in every pair produced for display the White slot holds a move of even
\* index, the Black slot a move of odd index, and the pair number is
\* floor(index / 2) + 1 of its moves.
C24_PairsByParity ==
    /\ \A k \in 1..Len(formatMoveList(MainLine)) : PairByParity(formatMoveList(MainLine)[k])
    /\ \A pair \in ShownPairs : PairByParity(pair)

\* C25: with a branch active whose first move is Black's (base index even),
\* the first variation pair holds the main-line White move at the base index
\* and the branch's first move as Black, is numbered floor((base + 1) / 2) + 1
\* and carries the indices base and base + 1; the remaining branch moves are
\* paired from index base + 2.
C25_HybridPair ==
    (/\ temporaryBranch # Null
     /\ temporaryBranch[1].baseMoveIndex >= 0
     /\ temporaryBranch[1].baseMoveIndex % 2 = 0)
    => LET base  == temporaryBranch[1].baseMoveIndex
           moves == temporaryBranch[1].moves
           pairs == tempBranchPairs(MainLine, temporaryBranch)
       IN  /\ Len(pairs) >= 1
           /\ base <= Tip
           /\ pairs[1].white = MainLine[base + 1]
           /\ pairs[1].black = <<moves[1]>>
           /\ pairs[1].number = ((base + 1) \div 2) + 1
           /\ pairs[1].whiteIndex = base
           /\ pairs[1].blackIndex = base + 1
           /\ Tail(pairs) = createMovePairs(Tail(moves), base + 2)

\* C26: the full-move number and the side to move of the status line depend on
\* the cursor index only: a state with the same cursor index and any other
\* main line and position yields the same two values, and the branch is no
\* input of the status line.
C26_StatusByIndexOnly ==
    \A h \in StoredHistories :
        LET other == [gameState EXCEPT !.history = h, !.fen = StartFen]
        IN  /\ getCurrentMoveDisplay(other).fullMoveNumber
                 = getCurrentMoveDisplay(gameState).fullMoveNumber
            /\ getCurrentMoveDisplay(other).side = getCurrentMoveDisplay(gameState).side
            /\ getCurrentMoveDisplay(gameState).fullMoveNumber = (Cursor \div 2) + 1

\* Reached: a branch is active, the cursor is past the first move and the
\* status line tells White to move.
C26_Witness ==
    /\ temporaryBranch # Null
    /\ Cursor = 1
    /\ Len(MainLine) > 2
    /\ getCurrentMoveDisplay(gameState).side = "White"
    /\ getCurrentMoveDisplay(gameState).fullMoveNumber = 1

\* C21: a request never receives, and the analysis side never shows, engine
\* output written for another position: every resolved promise holds
\* evaluations of the position it was issued for only, and the evaluations
\* shown by the panel and handed to the chat are those of the position shown.
C21_NoStaleOutput ==
    /\ \A id \in 1..Len(promises) :
          promises[id].state = "resolved" =>
             \A k \in 1..Len(promises[id].value) :
                promises[id].value[k].fen = promises[id].fen
    /\ \A k \in 1..Len(panel.evaluations) : panel.evaluations[k].fen = currentFen
    /\ currentEvaluation # Null => currentEvaluation[1].fen = currentFen

\* C22: with the analysis panel on screen, every change of the position shown
\* posts a new request for the new position to the engine, also while the
\* request for the previous position is in flight.
C22_ChangeIssuesRequest ==
    [][(panel.mounted /\ currentFen' # currentFen) =>
          /\ Len(promises') = Len(promises) + 1
          /\ promises'[Len(promises')].fen = currentFen'
          /\ toEngine' # <<>>
          /\ toEngine'[Len(toEngine')] = Go(currentFen')]_analysisVars

\* C29: every promise evaluatePosition returned is eventually settled.
C29_PromiseSettles ==
    \A id \in 1..MaxRequests :
        (Len(promises) >= id) ~> (Len(promises) >= id /\ promises[id].state # "pending")

\* C23: the conversation always consists of the sends in order, each a user
\* message followed by its one assistant message (only the last send may still
\* wait for it), the backend is called at most once per send, and every send is
\* eventually answered by a reply or an error message.
C23_OneAnswerPerSend ==
    /\ [](/\ Len(messages) = 2 * chat.sent - (IF chat.isLoading THEN 1 ELSE 0)
          /\ \A i \in 1..Len(messages) :
                /\ messages[i].send = (i + 1) \div 2
                /\ messages[i].role = IF i % 2 = 1 THEN "user" ELSE "assistant"
          /\ chat.posts <= 1)
    /\ \A n \in 1..MaxSends :
          (chat.sent = n /\ chat.isLoading) ~> (Len(messages) = 2 * n)


\* C30: whatever the interleaving of the POST /api/chats requests, the store
\* holds at most one chat per gameId and no two chats share an id.
C30_OneChatPerGame ==
    \A c1 \in chats : \A c2 \in chats :
        (c1.gameId = c2.gameId \/ c1.id = c2.id) => c1 = c2

====
